---- MODULE Spec2Model ----
(***************************************************************************)
(* LastNightPix API: the Express servers of src/index.js (three servers,   *)
(* one after the other in the file), src/unnamed/part_000 and              *)
(* src/unnamed/part_001, over the three external services they call:       *)
(* S3 (object storage), Rekognition (face collection) and Stripe           *)
(* (checkout sessions).                                                    *)
(*                                                                         *)
(*   server = "A"  src/index.js  lines   1-352  (sharp, /download by key)  *)
(*   server = "B"  src/index.js  lines 354-782  (/purchase/session)        *)
(*   server = "C"  src/index.js  lines 785-1007 (event filter, raw ids)    *)
(*   server = "D"  src/unnamed/part_000         (colon ids)                *)
(*   server = "E"  src/unnamed/part_001         (lazy Stripe, /download)   *)
(*                                                                         *)
(* One behaviour is one deployed server.  A string is a sequence of        *)
(* characters (one-character strings); the literals the code puts into a   *)
(* key ("event-photos", "default", the extension, the digits of            *)
(* Date.now()) are single tokens, none of which holds '/' or ':'.          *)
(***************************************************************************)
EXTENDS Integers, Sequences, FiniteSets, TLC

VARIABLES
    server,         \* which of the five servers is running
    ADMIN_TOKEN,    \* process.env.ADMIN_TOKEN || ''
    STRIPE_SECRET,  \* process.env.STRIPE_SECRET || ''
    _stripe,        \* part_001: the cached Stripe client (FALSE = null)
    s3,             \* the bucket: the set of keys that hold an object
    faces,          \* the face collection: ExternalImageIds with an indexed face
    sessions,       \* Stripe checkout sessions, by position
    req,            \* the request handled last
    resp,           \* the response sent to it
    calls           \* the external calls made while handling it, in order

vars == <<server, ADMIN_TOKEN, STRIPE_SECRET, _stripe, s3, faces, sessions,
          req, resp, calls>>

\* ------------------------------------------------------------------ bounds
MaxObjects == 1    \* objects in the bucket
MaxFiles == 1      \* files in one /admin/upload request
MaxSessions == 1   \* Stripe checkout sessions
MaxMatches == 2    \* FaceMatches in one search result

\* ------------------------------------------------------------- characters
Letters == {"a", "b", "f", "g", "k"}
DigitStr(n) == ToString(n)
Digits == {DigitStr(n) : n \in 0..9}

\* \w of a JavaScript regular expression, [A-Za-z0-9_], over these characters
Word == Letters \cup Digits \cup {"_", "event-photos", "default", "photo", "upload"}
\* \s
Space == {" "}
\* the file extensions are tokens made of '.' and letters
Exts == {".jpg", ".png", ".heic"}

Servers == {"A", "B", "C", "D", "E"}

\* what the clients send
EventInputs == {<<>>, <<" ", "a">>, <<"a", ":", "b">>}
NameInputs == {<<>>, <<"f", " ", " ", "#", ":", "g", ".heic">>}
\* the readings of Date.now()
Times == {1}
\* FaceRecords.length / FaceDetails.length of an answer, -1 when the call throws
FaceCounts == {-1, 0, 1}
\* Similarity in tenths of a percent: 89.6, 99.0
Similarities == {896, 990}
TokenInputs == {<<>>, <<"t">>}
AuthInputs == {<<>>, <<"t">>,
               <<"B", "e", "a", "r", "e", "r", " ">>,
               <<"B", "e", "a", "r", "e", "r", " ", "t">>,
               <<"B", "e", "a", "r", "e", "r", " ", "u">>,
               <<"b", "e", "a", "r", "e", "r", " ", "t">>}

\* ---------------------------------------------------------------- strings
RECURSIVE ReplaceAll(_, _, _)
\* s.replace(/from/g, to) for a one-character pattern
ReplaceAll(s, from, to) ==
    IF s = <<>> THEN <<>>
    ELSE <<(IF Head(s) = from THEN to ELSE Head(s))>> \o ReplaceAll(Tail(s), from, to)

startsWith(s, p) == Len(p) <= Len(s) /\ SubSeq(s, 1, Len(p)) = p

slice(s, n) == SubSeq(s, n + 1, Len(s))

Contains(s, c) == \E i \in 1..Len(s) : s[i] = c

RECURSIVE trimStart(_)
trimStart(s) == IF s # <<>> /\ Head(s) \in Space THEN trimStart(Tail(s)) ELSE s

RECURSIVE trimEnd(_)
trimEnd(s) ==
    IF s # <<>> /\ s[Len(s)] \in Space THEN trimEnd(SubSeq(s, 1, Len(s) - 1)) ELSE s

\* String.prototype.trim
trim(s) == trimEnd(trimStart(s))

RECURSIVE RemoveNot(_, _)
\* s.replace(/[^...]/g, '') : drop every character outside the class
RemoveNot(s, allowed) ==
    IF s = <<>> THEN <<>>
    ELSE (IF Head(s) \in allowed THEN <<Head(s)>> ELSE <<>>) \o RemoveNot(Tail(s), allowed)

RECURSIVE ReplaceEach(_, _)
\* s.replace(/[^...]/g, '_') : one '_' for every character outside the class
ReplaceEach(s, allowed) ==
    IF s = <<>> THEN <<>>
    ELSE <<(IF Head(s) \in allowed THEN Head(s) ELSE "_")>> \o ReplaceEach(Tail(s), allowed)

RECURSIVE ReplaceRuns(_, _, _)
\* s.replace(/[^...]+/g, '_') : one '_' for every maximal run of characters
\* outside the class; inRun says the character before was part of such a run
ReplaceRuns(s, allowed, inRun) ==
    IF s = <<>> THEN <<>>
    ELSE IF Head(s) \in allowed THEN <<Head(s)>> \o ReplaceRuns(Tail(s), allowed, FALSE)
    ELSE (IF inRun THEN <<>> ELSE <<"_">>) \o ReplaceRuns(Tail(s), allowed, TRUE)

\* every character a client can put into an event code or a file name
AllChars == Word \cup Exts \cup Space \cup {".", "-", ":", "/", "#"}

\* ---------------------------------------------- keys and ExternalImageIds
\* index.js, servers A and B
keyToExternalId(key) == ReplaceAll(key, "/", ":")
externalIdToKey(eid) == ReplaceAll(eid, ":", "/")

\* part_000 and part_001, servers D and E
toExternalId(s3Key) == ReplaceAll(s3Key, "/", ":")
fromExternalId(extId) == ReplaceAll(extId, ":", "/")
colonPrefix(prefixWithSlashes) == ReplaceAll(prefixWithSlashes, "/", ":")

eventPrefix(event) ==
    IF event # <<>> THEN <<"event-photos", "/">> \o event \o <<"/">>
    ELSE <<"event-photos", "/", "default", "/">>

\* servers C and D: whitespace runs to '_', then every other character
\* outside [a-zA-Z0-9_.\-:/] to '_'; t is Date.now()
sanitizeName(name, t) ==
    ReplaceEach(
        ReplaceRuns(IF name # <<>> THEN name
                    ELSE <<"upload", "-", DigitStr(t), ".jpg">>,
                    AllChars \ Space, FALSE),
        Word \cup Exts \cup {".", "-", ":", "/"})

\* server E: every run of characters outside [\w.\-:/] to one '_'
originalOf(name) == ReplaceRuns(name, Word \cup Exts \cup {".", "-", ":", "/"}, FALSE)

\* req.file.originalname || `photo-${Date.now()}.jpg`
orDefaultName(originalname, t) ==
    IF originalname # <<>> THEN originalname
    ELSE <<"photo", "-", DigitStr(t), ".jpg">>

\* the key POST /upload stores the photo under
uploadKey(event, originalname, t) ==
    LET original == IF server = "E" THEN originalOf(orDefaultName(originalname, t))
                    ELSE sanitizeName(orDefaultName(originalname, t), t)
    IN eventPrefix(trim(event)) \o <<DigitStr(t), "-">> \o original

\* the ExternalImageId POST /upload passes to indexFaces: server C passes the
\* key itself, servers D and E the key with ':' for '/'
uploadExternalId(s3Key) ==
    IF server = "C" THEN s3Key ELSE toExternalId(s3Key)

\* ------------------------------------------------------- external services
\* Rekognition refuses an ExternalImageId that holds '/' (index.js:7,
\* part_000:44); any call may also fail on its own
RekognitionAccepts(eid) == ~Contains(eid, "/")

Call(op, arg, ok) == [op |-> op, arg |-> arg, ok |-> ok]
\* a call that succeeded, with what the service answered
Answered(op, arg, answer) == [op |-> op, arg |-> arg, ok |-> TRUE, answer |-> answer]

NoReq == [ep |-> "none"]
NoResp == [status |-> 0, kind |-> "none"]

Init ==
    /\ server \in Servers
    /\ ADMIN_TOKEN \in (IF server \in {"A", "B"} THEN TokenInputs ELSE {<<>>})
    /\ STRIPE_SECRET \in (IF server \in {"A", "B", "E"} THEN BOOLEAN ELSE {FALSE})
    /\ _stripe = FALSE
    /\ s3 = {}
    /\ faces = {}
    /\ sessions = <<>>
    /\ req = NoReq
    /\ resp = NoResp
    /\ calls = <<>>

\* photos an earlier run of the service stored and indexed: the bucket and
\* the collection outlive the server.  Two photos of event a, one of event b
LibraryKeys ==
    {<<"event-photos", "/", "a", "/", "1", "-", "f", ".jpg">>,
     <<"event-photos", "/", "a", "/", "1", "-", "g", ".jpg">>,
     <<"event-photos", "/", "b", "/", "1", "-", "f", ".jpg">>}
Library == {[eid |-> ReplaceAll(key, "/", ":"), photo |-> key] : key \in LibraryKeys}

\* a server constructed over the library
InitSearch ==
    /\ server \in Servers
    /\ ADMIN_TOKEN \in (IF server \in {"A", "B"} THEN TokenInputs ELSE {<<>>})
    /\ STRIPE_SECRET \in (IF server \in {"A", "B", "E"} THEN BOOLEAN ELSE {FALSE})
    /\ _stripe = FALSE
    /\ s3 = LibraryKeys
    /\ faces = Library
    /\ sessions = <<>>
    /\ req = NoReq
    /\ resp = NoResp
    /\ calls = <<>>

Fail(status) == [status |-> status, kind |-> "error"]

\* the server is between two requests
Idle == req = NoReq

\* the response has gone out; the server waits for the next request
Finish ==
    /\ ~Idle
    /\ req' = NoReq
    /\ resp' = NoResp
    /\ calls' = <<>>
    /\ UNCHANGED <<server, ADMIN_TOKEN, STRIPE_SECRET, _stripe, s3, faces, sessions>>

\* ------------------------------------------------------------ POST /upload
\* servers C, D and E: putObject, then indexFaces, one catch around both.
\* idx is the number of FaceRecords indexFaces returns, or -1 when it throws.
UploadNoFile ==
    /\ req' = [ep |-> "/upload", event |-> <<>>]
    /\ resp' = Fail(400)
    /\ calls' = <<>>
    /\ UNCHANGED <<s3, faces>>

\* the answer of the catch of POST /upload: 500 with { success: false, error }
UploadFailed == [status |-> 500, kind |-> "error", success |-> FALSE]

\* a variant that deletes the object again when indexFaces fails
UploadFileUndone(event, name, t) ==
    LET s3Key == uploadKey(event, name, t)
        externalId == uploadExternalId(s3Key)
    IN  /\ req' = [ep |-> "/upload", event |-> trim(event)]
        /\ \/ /\ resp' = UploadFailed
              /\ calls' = <<Call("s3.putObject", s3Key, FALSE)>>
              /\ UNCHANGED <<s3, faces>>
           \/ /\ Cardinality(s3 \cup {s3Key}) <= MaxObjects
              /\ \E idx \in FaceCounts :
                    LET idxOk == idx >= 0 /\ RekognitionAccepts(externalId) IN
                    IF idxOk THEN
                          /\ calls' = <<Call("s3.putObject", s3Key, TRUE),
                                        Call("rekognition.indexFaces", externalId, TRUE)>>
                          /\ s3' = s3 \cup {s3Key}
                          /\ resp' = [status |-> 200, kind |-> "upload", success |-> TRUE,
                                      s3Key |-> s3Key, indexedFaces |-> idx]
                          /\ faces' = IF idx > 0
                                      THEN faces \cup {[eid |-> externalId, photo |-> s3Key]}
                                      ELSE faces
                    ELSE
                          /\ calls' = <<Call("s3.putObject", s3Key, TRUE),
                                        Call("rekognition.indexFaces", externalId, FALSE),
                                        Call("s3.deleteObject", s3Key, TRUE)>>
                          /\ s3' = s3 \ {s3Key}
                          /\ resp' = UploadFailed
                          /\ UNCHANGED faces

UploadFile(event, name, t) ==
    LET s3Key == uploadKey(event, name, t)
        externalId == uploadExternalId(s3Key)
    IN  /\ req' = [ep |-> "/upload", event |-> trim(event)]
        /\ \/ /\ resp' = UploadFailed
              /\ calls' = <<Call("s3.putObject", s3Key, FALSE)>>
              /\ UNCHANGED <<s3, faces>>
           \/ /\ Cardinality(s3 \cup {s3Key}) <= MaxObjects
              /\ s3' = s3 \cup {s3Key}
              /\ \E idx \in FaceCounts :
                    LET idxOk == idx >= 0 /\ RekognitionAccepts(externalId) IN
                    /\ calls' = <<Call("s3.putObject", s3Key, TRUE),
                                  Call("rekognition.indexFaces", externalId, idxOk)>>
                    /\ IF idxOk THEN
                          /\ resp' = [status |-> 200, kind |-> "upload", success |-> TRUE,
                                      s3Key |-> s3Key, indexedFaces |-> idx]
                          /\ faces' = IF idx > 0
                                      THEN faces \cup {[eid |-> externalId, photo |-> s3Key]}
                                      ELSE faces
                       ELSE
                          /\ resp' = UploadFailed
                          /\ UNCHANGED faces

Upload ==
    /\ Idle
    /\ server \in {"C", "D", "E"}
    /\ \/ UploadNoFile
       \/ \E event \in EventInputs, name \in NameInputs, t \in Times :
             UploadFile(event, name, t)
    /\ UNCHANGED <<server, ADMIN_TOKEN, STRIPE_SECRET, _stripe, sessions>>

\* ------------------------------------------- searchFacesByImage and sort
\* what rekognition.searchFacesByImage may answer: FaceMatches over the faces
\* of the collection, in any order, a face possibly more than once (a photo
\* with several faces has one ExternalImageId)
FaceMatchSet ==
    {[eid |-> f.eid, photo |-> f.photo, Similarity |-> s] :
        f \in faces, s \in Similarities}
SearchResults == UNION {[1..n -> FaceMatchSet] : n \in 0..MaxMatches}
\* a search with an image nothing is known about: any answer
AnySearch == {[image |-> <<>>, found |-> found] : found \in SearchResults}

\* /match and /match-by-url search with FaceMatchThreshold: 85, MaxFaces: 5
MatchThreshold == 850
MatchMaxFaces == 5

\* a collection an earlier run filled: MatchMaxFaces photos of event b and
\* one photo of event a
PartyKey(i) == <<"event-photos", "/", "b", "/", DigitStr(i), "-", "f", ".jpg">>
GuestKey == <<"event-photos", "/", "a", "/", "1", "-", "f", ".jpg">>
CrowdKeys == {PartyKey(i) : i \in 1..MatchMaxFaces} \cup {GuestKey}
Crowd == {[eid |-> ReplaceAll(key, "/", ":"), photo |-> key] : key \in CrowdKeys}

\* a server of part_000 or part_001 constructed over that collection
InitCrowd ==
    /\ server \in {"D", "E"}
    /\ ADMIN_TOKEN = <<>>
    /\ STRIPE_SECRET \in (IF server = "E" THEN BOOLEAN ELSE {FALSE})
    /\ _stripe = FALSE
    /\ s3 = CrowdKeys
    /\ faces = Crowd
    /\ sessions = <<>>
    /\ req = NoReq
    /\ resp = NoResp
    /\ calls = <<>>

\* an image whose resemblance to every face of the collection is known: the
\* Similarity, in tenths, Rekognition computes for the face.  The faces it
\* resembles get distinct values above both thresholds (the photo of event a
\* guest, photo i of event b 900 + 10 * i), the others 700
Likeness(face, guest) ==
    IF face.photo = GuestKey THEN guest
    ELSE 900 + 10 * (CHOOSE i \in 1..MatchMaxFaces : face.photo = PartyKey(i))
GuestLikeness == {896, 965}
Selfies ==
    {[face \in faces |-> IF face \in resembling THEN Likeness(face, guest) ELSE 700] :
        resembling \in SUBSET faces, guest \in GuestLikeness}

\* rekognition.searchFacesByImage with FaceMatchThreshold and MaxFaces: the
\* faces at or above the threshold, most similar first, at most MaxFaces of
\* them (the images here give no two such faces the same Similarity)
searchFacesByImage(image, FaceMatchThreshold, MaxFaces) ==
    LET above == {face \in DOMAIN image : image[face] >= FaceMatchThreshold}
        rank(face) == 1 + Cardinality({f \in above : image[f] > image[face]})
        count == IF Cardinality(above) < MaxFaces THEN Cardinality(above) ELSE MaxFaces
    IN  [n \in 1..count |->
            LET face == CHOOSE f \in above : rank(f) = n
            IN  [eid |-> face.eid, photo |-> face.photo, Similarity |-> image[face]]]

\* the searches of the selfies, as a handler with these parameters gets them
SelfieSearch(FaceMatchThreshold, MaxFaces) ==
    {[image |-> image,
      found |-> searchFacesByImage(image, FaceMatchThreshold, MaxFaces)] :
        image \in Selfies}

RECURSIVE InsertDesc(_, _)
\* x into a list sorted by non-increasing Similarity, after its equals
InsertDesc(sorted, x) ==
    IF sorted = <<>> THEN <<x>>
    ELSE IF Head(sorted).Similarity >= x.Similarity
         THEN <<Head(sorted)>> \o InsertDesc(Tail(sorted), x)
         ELSE <<x>> \o sorted

RECURSIVE sortBySimilarity(_)
\* matches.sort((a,b) => (b.Similarity||0)-(a.Similarity||0)), a stable sort
sortBySimilarity(ms) ==
    IF ms = <<>> THEN <<>>
    ELSE InsertDesc(sortBySimilarity(SubSeq(ms, 1, Len(ms) - 1)), ms[Len(ms)])

\* the prefix the match endpoints filter ExternalImageIds by, <<>> for none:
\* server C compares with the '/' prefix, D and E with the ':' prefix
wantedPrefixOf(event) ==
    IF event = <<>> THEN <<>>
    ELSE IF server = "C" THEN eventPrefix(event)
    ELSE colonPrefix(eventPrefix(event))

filterByPrefix(matches, wantedPrefix) ==
    IF wantedPrefix = <<>> THEN matches
    ELSE SelectSeq(matches, LAMBDA m : startsWith(m.eid, wantedPrefix))

\* the key a match endpoint answers with for an ExternalImageId
matchKey(eid) == IF server = "C" THEN eid ELSE fromExternalId(eid)

\* one entry of a match response; photo is the key the matched face's photo
\* is stored under (not sent, kept to state the properties)
Result(m) == [key |-> matchKey(m.eid), similarity |-> m.Similarity, photo |-> m.photo]

MapResults(ms) == [i \in 1..Len(ms) |-> Result(ms[i])]

\* a variant that takes the first match that passes the filter, as listed
TopMatchAsListed(ep, event, search, before) ==
    LET filtered == filterByPrefix(search.found, wantedPrefixOf(event))
    IN  /\ req' = [ep |-> ep, event |-> event]
        /\ calls' = before \o <<Answered("rekognition.searchFacesByImage",
                                          search.image, search.found)>>
        /\ resp' = [status |-> 200, kind |-> "match",
                    matchFound |-> Len(filtered) > 0,
                    results |-> IF Len(filtered) > 0 THEN <<Result(filtered[1])>> ELSE <<>>]

\* /match and /match-by-url after the search: the top match, if any
TopMatch(ep, event, search, before) ==
    LET filtered == filterByPrefix(search.found, wantedPrefixOf(event))
        top == sortBySimilarity(filtered)
    IN  /\ req' = [ep |-> ep, event |-> event]
        /\ calls' = before \o <<Answered("rekognition.searchFacesByImage",
                                          search.image, search.found)>>
        /\ resp' = [status |-> 200, kind |-> "match",
                    matchFound |-> Len(filtered) > 0,
                    results |-> IF Len(filtered) > 0 THEN <<Result(top[1])>> ELSE <<>>]

\* a variant that swallows the error: the search failed and the client is
\* told that nothing matched
SearchFailedSwallowed(ep, event, before) ==
    /\ req' = [ep |-> ep, event |-> event]
    /\ calls' = before \o <<Call("rekognition.searchFacesByImage", <<>>, FALSE)>>
    /\ resp' = [status |-> 200, kind |-> "match", matchFound |-> FALSE,
                results |-> <<>>]

SearchFailed(ep, event, before) ==
    /\ req' = [ep |-> ep, event |-> event]
    /\ calls' = before \o <<Call("rekognition.searchFacesByImage", <<>>, FALSE)>>
    /\ resp' = Fail(500)

\* ------------------------------------------------------------- POST /match
MatchOn(searches) ==
    /\ Idle
    /\ server \in {"C", "D", "E"}
    /\ \/ /\ req' = [ep |-> "/match", event |-> <<>>]     \* no file
          /\ resp' = Fail(400)
          /\ calls' = <<>>
       \/ \E event \in EventInputs :
             \/ SearchFailed("/match", trim(event), <<>>)
             \/ \E search \in searches :
                   TopMatch("/match", trim(event), search, <<>>)
    /\ UNCHANGED <<server, ADMIN_TOKEN, STRIPE_SECRET, _stripe, s3, faces, sessions>>

Match == MatchOn(AnySearch)
MatchSelfie == MatchOn(SelfieSearch(MatchThreshold, MatchMaxFaces))

\* ----------------------------------------------------- POST /match-by-url
\* servers C and D; the event comes from the body and is not trimmed
MatchByUrl ==
    /\ Idle
    /\ server \in {"C", "D"}
    /\ \/ /\ req' = [ep |-> "/match-by-url", event |-> <<>>]   \* no url
          /\ resp' = Fail(400)
          /\ calls' = <<>>
       \/ \E event \in EventInputs :
             \/ /\ req' = [ep |-> "/match-by-url", event |-> event]  \* !r.ok
                /\ resp' = Fail(400)
                /\ calls' = <<Call("fetch", <<>>, FALSE)>>
             \/ /\ req' = [ep |-> "/match-by-url", event |-> event]  \* fetch throws
                /\ resp' = Fail(500)
                /\ calls' = <<Call("fetch", <<>>, FALSE)>>
             \/ SearchFailed("/match-by-url", event, <<Call("fetch", <<>>, TRUE)>>)
             \/ \E search \in AnySearch :
                   TopMatch("/match-by-url", event, search,
                            <<Call("fetch", <<>>, TRUE)>>)
    /\ UNCHANGED <<server, ADMIN_TOKEN, STRIPE_SECRET, _stripe, s3, faces, sessions>>

\* ----------------------------------------------------- POST /match-gallery
\* servers C, D and E: every match that passes the filter, sorted
MatchGalleryOn(searches) ==
    /\ Idle
    /\ server \in {"C", "D", "E"}
    /\ \/ /\ req' = [ep |-> "/match-gallery", event |-> <<>>]   \* no file
          /\ resp' = Fail(400)
          /\ calls' = <<>>
       \/ \E event \in EventInputs :
             \/ SearchFailed("/match-gallery", trim(event), <<>>)
             \/ \E search \in searches :
                   LET filtered == filterByPrefix(search.found,
                                                  wantedPrefixOf(trim(event)))
                       results == SelectSeq(MapResults(sortBySimilarity(filtered)),
                                            LAMBDA r : r.key # <<>>)
                   IN  /\ req' = [ep |-> "/match-gallery", event |-> trim(event)]
                       /\ calls' = <<Answered("rekognition.searchFacesByImage",
                                              search.image, search.found)>>
                       /\ resp' = [status |-> 200, kind |-> "match",
                                   matchFound |-> Len(results) > 0,
                                   results |-> results]
    /\ UNCHANGED <<server, ADMIN_TOKEN, STRIPE_SECRET, _stripe, s3, faces, sessions>>

MatchGallery == MatchGalleryOn(AnySearch)
\* FaceMatchThreshold: 80, MaxFaces: 12
GalleryThreshold == 800
GalleryMaxFaces == 12
MatchGallerySelfie == MatchGalleryOn(SelfieSearch(GalleryThreshold, GalleryMaxFaces))

\* ---------------------------------------------------------- image bytes
\* the keys a client asks for: none, a key that holds no object, stored keys
KeyInputs == {<<>>, <<"k">>} \cup s3

\* s3.getObject answers with the object only if the key holds one, and may
\* fail even then
GetOutcomes(key) == IF key \in s3 THEN {TRUE, FALSE} ELSE {FALSE}

Watermarked(key) == [status |-> 200, kind |-> "watermarked", key |-> key]
Original(key) == [status |-> 200, kind |-> "original", key |-> key]

\* GET /preview-image, server A: getObject, sharp, composite, one catch
PreviewImageA ==
    /\ Idle
    /\ server = "A"
    /\ \E key \in KeyInputs :
          /\ req' = [ep |-> "/preview-image", key |-> key, raw |-> FALSE]
          /\ IF key = <<>> THEN resp' = Fail(400) /\ calls' = <<>>
             ELSE \E got \in GetOutcomes(key), sharpOk \in BOOLEAN :
                    /\ calls' = <<Call("s3.getObject", key, got)>>
                    /\ resp' = IF got /\ sharpOk THEN Watermarked(key) ELSE Fail(500)
    /\ UNCHANGED <<server, ADMIN_TOKEN, STRIPE_SECRET, _stripe, s3, faces, sessions>>

\* what the catch of server B's /preview-image does: reads the object again
\* and sends it as it is stored
previewFallback(key, first, again) ==
    /\ calls' = first \o <<Call("s3.getObject", key, again)>>
    /\ resp' = IF again THEN Original(key) ELSE Fail(500)

\* GET /preview-image, server B
PreviewImageB ==
    /\ Idle
    /\ server = "B"
    /\ \E key \in KeyInputs :
          /\ req' = [ep |-> "/preview-image", key |-> key, raw |-> FALSE]
          /\ IF key = <<>> THEN resp' = Fail(400) /\ calls' = <<>>
             ELSE \E got \in GetOutcomes(key), sharpOk \in BOOLEAN,
                     again \in GetOutcomes(key) :
                    IF got /\ sharpOk
                    THEN /\ calls' = <<Call("s3.getObject", key, TRUE)>>
                         /\ resp' = Watermarked(key)
                    ELSE previewFallback(key, <<Call("s3.getObject", key, got)>>, again)
    /\ UNCHANGED <<server, ADMIN_TOKEN, STRIPE_SECRET, _stripe, s3, faces, sessions>>

\* GET /preview-image, server E: ?raw= streams the stored object
PreviewImageE ==
    /\ Idle
    /\ server = "E"
    /\ \E key \in KeyInputs, raw \in BOOLEAN :
          /\ req' = [ep |-> "/preview-image", key |-> key, raw |-> raw]
          /\ IF key = <<>> THEN resp' = Fail(400) /\ calls' = <<>>
             ELSE \E got \in GetOutcomes(key), sharpOk \in BOOLEAN :
                    /\ calls' = <<Call("s3.getObject", key, got)>>
                    /\ resp' = IF raw THEN (IF got THEN Original(key) ELSE Fail(404))
                               ELSE IF got /\ sharpOk THEN Watermarked(key)
                               ELSE Fail(500)
    /\ UNCHANGED <<server, ADMIN_TOKEN, STRIPE_SECRET, _stripe, s3, faces, sessions>>

\* GET /proxy-image, servers C, D and E: streams the stored object
ProxyImage ==
    /\ Idle
    /\ server \in {"C", "D", "E"}
    /\ \E key \in KeyInputs :
          /\ req' = [ep |-> "/proxy-image", key |-> key]
          /\ IF key = <<>> THEN resp' = Fail(400) /\ calls' = <<>>
             ELSE \E got \in GetOutcomes(key) :
                    /\ calls' = <<Call("s3.getObject", key, got)>>
                    /\ resp' = IF got THEN Original(key) ELSE Fail(404)
    /\ UNCHANGED <<server, ADMIN_TOKEN, STRIPE_SECRET, _stripe, s3, faces, sessions>>

SignedUrls(keys) == [status |-> 200, kind |-> "signedUrls", keys |-> keys]

\* GET /download?key=, server A: a signed URL for whatever key is asked for
DownloadByKey ==
    /\ Idle
    /\ server = "A"
    /\ \E key \in KeyInputs :
          /\ req' = [ep |-> "/download", key |-> key]
          /\ IF key = <<>> THEN resp' = Fail(400) /\ calls' = <<>>
             ELSE /\ calls' = <<Call("s3.getSignedUrl", key, TRUE)>>
                  /\ resp' = SignedUrls(<<key>>)
    /\ UNCHANGED <<server, ADMIN_TOKEN, STRIPE_SECRET, _stripe, s3, faces, sessions>>

\* -------------------------------------------------------------- JSON text
Quote == "\""

RECURSIVE JoinQuoted(_)
\* the elements of an array of strings, each in quotes, separated by commas
JoinQuoted(arr) ==
    IF arr = <<>> THEN <<>>
    ELSE <<Quote>> \o Head(arr) \o <<Quote>>
         \o (IF Len(arr) > 1 THEN <<",">> ELSE <<>>) \o JoinQuoted(Tail(arr))

\* JSON.stringify of an array of strings (no character here needs an escape)
JSONstringify(arr) == <<"[">> \o JoinQuoted(arr) \o <<"]">>

ParseError == [ok |-> FALSE, isArray |-> FALSE, items |-> <<>>]
Parsed(items) == [ok |-> TRUE, isArray |-> TRUE, items |-> items]

\* the positions of the quotes of text, in order
QuotePositions(text) ==
    SelectSeq([i \in 1..Len(text) |-> i], LAMBDA i : text[i] = Quote)

\* the array elements of text after its '[': strings in quotes, a comma
\* between one and the next, ']' after the last and nothing behind it
ParseElements(text) ==
    LET quotes == QuotePositions(text)
        m == Len(quotes) \div 2
        open(k) == quotes[2 * k - 1]
        close(k) == quotes[2 * k]
    IN  IF /\ Len(quotes) >= 2
           /\ Len(quotes) % 2 = 0
           /\ open(1) = 2
           /\ close(m) = Len(text) - 1
           /\ text[Len(text)] = "]"
           /\ \A k \in 1..(m - 1) :
                 text[close(k) + 1] = "," /\ open(k + 1) = close(k) + 2
        THEN Parsed([k \in 1..m |-> SubSeq(text, open(k) + 1, close(k) - 1)])
        ELSE ParseError

\* JSON.parse, for the texts a session's metadata.keys can hold
JSONparse(text) ==
    IF text = <<"[", "]">> THEN Parsed(<<>>)
    ELSE IF text = <<"{", "}">> THEN [ok |-> TRUE, isArray |-> FALSE, items |-> <<>>]
    ELSE IF Len(text) >= 2 /\ text[1] = "[" THEN ParseElements(text)
    ELSE ParseError

RECURSIVE split(_, _)
\* String.prototype.split for a one-character separator
split(text, sep) ==
    IF ~Contains(text, sep) THEN <<text>>
    ELSE LET i == CHOOSE k \in 1..Len(text) :
                     text[k] = sep /\ \A h \in 1..(k - 1) : text[h] # sep
         IN <<SubSeq(text, 1, i - 1)>> \o split(SubSeq(text, i + 1, Len(text)), sep)

\* ------------------------------------------------------------------ Stripe
\* a checkout session: metadata.keys (a JSON text, <<>> when absent),
\* metadata.s3_key (<<>> when absent) and whether payment_status is 'paid'
Session(keys, s3_key) ==
    [keys |-> keys, s3_key |-> s3_key, paid |-> FALSE, charged |-> <<>>]
\* line_items: the photos the session charges for (not read by any handler,
\* kept to state the properties)
ChargedFor(session, arr) == [session EXCEPT !.charged = arr]

SessionId(i) == <<"cs", DigitStr(i)>>
SessionIds == {SessionId(i) : i \in 1..Len(sessions)}
\* the session_id a client sends: none, one Stripe does not know, a real one
SessionIdInputs == {<<>>, SessionId(0)} \cup SessionIds
SessionOf(id) == sessions[CHOOSE i \in 1..Len(sessions) : SessionId(i) = id]

MetadataLimit == 100

\* what the clients ask to buy
CheckoutKeys == {<<"k">>}
AlbumInputs == {<<>>, << <<>> >>, << <<"k">>, <<>>, <<"g">> >>}
\* albums around the number of keys the metadata keeps: k1, k2, ...
LongAlbum == [i \in 1..(MetadataLimit + 1) |-> <<"k", DigitStr(i)>>]
AlbumSizes == {1, 2, MetadataLimit - 1, MetadataLimit, MetadataLimit + 1}
LongAlbums == {SubSeq(LongAlbum, 1, n) : n \in AlbumSizes}

\* keys.filter(Boolean)
filterBoolean(keys) == SelectSeq(keys, LAMBDA k : k # <<>>)

\* arr.slice(0, n)
sliceTo(arr, n) == SubSeq(arr, 1, IF Len(arr) < n THEN Len(arr) ELSE n)

\* the customer pays on Stripe's hosted page
Pay ==
    /\ Idle
    /\ server \in {"B", "E"}
    /\ \E i \in 1..Len(sessions) :
          /\ ~sessions[i].paid
          /\ sessions' = [sessions EXCEPT ![i].paid = TRUE]
    /\ UNCHANGED <<server, ADMIN_TOKEN, STRIPE_SECRET, _stripe, s3, faces, req,
                   resp, calls>>

\* a session of the same Stripe account that this server did not create:
\* its metadata holds no key list, an empty one, or no JSON array
ForeignMetadata == {<<>>, <<"[", "]">>, <<"{", "}">>, <<"[", "k">>}
ForeignSession ==
    /\ Idle
    /\ server \in {"B", "E"}
    /\ Len(sessions) < MaxSessions
    /\ \E keys \in ForeignMetadata : sessions' = Append(sessions, Session(keys, <<>>))
    /\ UNCHANGED <<server, ADMIN_TOKEN, STRIPE_SECRET, _stripe, s3, faces, req,
                   resp, calls>>

\* const stripe = STRIPE_SECRET ? new Stripe(STRIPE_SECRET) : null (A and B)
stripe == STRIPE_SECRET

\* stripe.checkout.sessions.create: fails, or stores the session
createSession(session) ==
    \/ /\ calls' = <<Call("stripe.sessions.create", <<>>, FALSE)>>
       /\ resp' = Fail(500)
       /\ UNCHANGED sessions
    \/ /\ Len(sessions) < MaxSessions
       /\ calls' = <<Call("stripe.sessions.create", <<>>, TRUE)>>
       /\ resp' = [status |-> 200, kind |-> "checkout",
                   id |-> SessionId(Len(sessions) + 1)]
       /\ sessions' = Append(sessions, session)

\* the answer of a handler that finds no Stripe client: 500 with the message
\* 'Stripe not configured: missing STRIPE_SECRET env var' in its body
StripeNotConfigured ==
    [status |-> 500, kind |-> "error", error |-> "Stripe not configured"]

Refuse(status) ==
    /\ resp' = Fail(status)
    /\ calls' = <<>>
    /\ UNCHANGED sessions

\* the metadata server A stores: none for a single photo, the keys of an album
singleMetadataA(key) == <<>>
\* the metadata server B stores for a single photo
singleMetadataB(key) == JSONstringify(<<key>>)
albumMetadata(arr) == JSONstringify(sliceTo(arr, MetadataLimit))

\* POST /create-checkout-session, servers A and B, for the albums the
\* clients may send
Checkout(albums) ==
    /\ Idle
    /\ server \in {"A", "B"}
    /\ \E tier \in {"single", "album", "other"} :
          /\ req' = [ep |-> "/create-checkout-session", tier |-> tier]
          /\ IF ~stripe
             THEN resp' = StripeNotConfigured /\ calls' = <<>> /\ UNCHANGED sessions
             ELSE IF tier = "single" THEN
                \E key \in CheckoutKeys \cup {<<>>} :
                   IF key = <<>> THEN Refuse(400)
                   ELSE createSession(ChargedFor(
                           Session(IF server = "A" THEN singleMetadataA(key)
                                   ELSE singleMetadataB(key), <<>>), <<key>>))
             ELSE IF tier = "album" THEN
                \E keys \in albums :
                   LET arr == filterBoolean(keys) IN
                   IF arr = <<>> THEN Refuse(400)
                   ELSE createSession(ChargedFor(Session(albumMetadata(arr), <<>>),
                                                 arr))
             ELSE Refuse(400)
    /\ UNCHANGED <<server, ADMIN_TOKEN, STRIPE_SECRET, _stripe, s3, faces>>

CreateCheckoutSession == Checkout(AlbumInputs)
\* the same handler, asked for long albums
CreateCheckoutSessionLong == Checkout(LongAlbums)

\* stripe.checkout.sessions.retrieve(id): throws, or answers with the
\* session; for an id Stripe does not know it throws or answers nothing
Known(id) == id \in SessionIds
\* a variant without the payment_status test
RetrievedSession(id) == Known(id)
PaidSession(id) == Known(id) /\ SessionOf(id).paid

\* the purchased keys GET /purchase/session reads from a session:
\* JSON.parse(meta.keys || '[]'), [] when it throws or is no array
purchasedKeys(session) ==
    LET parsed == JSONparse(IF session.keys # <<>> THEN session.keys ELSE <<"[", "]">>)
    IN IF parsed.ok /\ parsed.isArray THEN parsed.items ELSE <<>>

SignCalls(keys) == [i \in 1..Len(keys) |-> Call("s3.getSignedUrl", keys[i], TRUE)]

\* GET /purchase/session, server B
PurchaseSession ==
    /\ Idle
    /\ server = "B"
    /\ \E id \in SessionIdInputs :
          /\ req' = [ep |-> "/purchase/session", session_id |-> id]
          /\ IF ~stripe THEN resp' = StripeNotConfigured /\ calls' = <<>>
             ELSE IF id = <<>> THEN resp' = Fail(400) /\ calls' = <<>>
             ELSE \/ /\ calls' = <<Call("stripe.sessions.retrieve", id, FALSE)>>
                     /\ resp' = Fail(500)
                  \/ LET retrieved == <<Call("stripe.sessions.retrieve", id, TRUE)>> IN
                     IF ~PaidSession(id)
                     THEN resp' = Fail(403) /\ calls' = retrieved
                     ELSE LET keys == purchasedKeys(SessionOf(id)) IN
                          IF keys = <<>>
                          THEN resp' = Fail(400) /\ calls' = retrieved
                          ELSE /\ resp' = SignedUrls(keys)
                               /\ calls' = retrieved \o SignCalls(keys)
    /\ UNCHANGED <<server, ADMIN_TOKEN, STRIPE_SECRET, _stripe, s3, faces, sessions>>

\* a variant that caches the client before it looks at STRIPE_SECRET
getStripeCachedFirst(cache, secret) ==
    IF cache THEN [client |-> TRUE, cache |-> TRUE, created |-> FALSE]
    ELSE [client |-> secret, cache |-> TRUE, created |-> secret]

\* a variant that never keeps the client it creates
getStripeUncached(cache, secret) ==
    IF ~secret THEN [client |-> FALSE, cache |-> FALSE, created |-> FALSE]
    ELSE [client |-> TRUE, cache |-> FALSE, created |-> TRUE]

\* getStripe of server E: the cached client if there is one, else a new
\* client if STRIPE_SECRET is set, else it throws.  client: a client is
\* returned; cache: _stripe afterwards; created: new Stripe(...) was run
getStripe(cache, secret) ==
    IF cache THEN [client |-> TRUE, cache |-> TRUE, created |-> FALSE]
    ELSE IF ~secret THEN [client |-> FALSE, cache |-> FALSE, created |-> FALSE]
    ELSE [client |-> TRUE, cache |-> TRUE, created |-> TRUE]

\* a variant that falls back to another metadata field
sessionKeyOrKeys(session) ==
    IF session.s3_key # <<>> THEN session.s3_key ELSE session.keys
\* session.metadata && session.metadata.s3_key
sessionKey(session) == session.s3_key

\* POST /create-checkout-session, server E: metadata.s3_key is the key
CreateCheckoutSessionE ==
    /\ Idle
    /\ server = "E"
    /\ LET got == getStripe(_stripe, STRIPE_SECRET) IN
       /\ _stripe' = got.cache
       /\ \E key \in CheckoutKeys \cup s3 \cup {<<>>} :
             /\ req' = [ep |-> "/create-checkout-session", key |-> key,
                        newClient |-> got.created]
             /\ IF ~got.client
                THEN /\ resp' = StripeNotConfigured
                     /\ calls' = <<>>
                     /\ UNCHANGED sessions
                ELSE IF key = <<>> THEN Refuse(400)
                ELSE createSession(ChargedFor(Session(<<>>, key), <<key>>))
    /\ UNCHANGED <<server, ADMIN_TOKEN, STRIPE_SECRET, s3, faces>>

\* GET /download?session_id=, server E: streams the session's key if paid
DownloadBySession ==
    /\ Idle
    /\ server = "E"
    /\ LET got == getStripe(_stripe, STRIPE_SECRET) IN
       /\ _stripe' = got.cache
       /\ \E id \in SessionIdInputs :
             /\ req' = [ep |-> "/download", session_id |-> id,
                        newClient |-> got.created]
             /\ IF ~got.client THEN resp' = StripeNotConfigured /\ calls' = <<>>
                ELSE IF id = <<>> THEN resp' = Fail(400) /\ calls' = <<>>
                ELSE \/ /\ calls' = <<Call("stripe.sessions.retrieve", id, FALSE)>>
                        /\ resp' = Fail(500)
                     \/ LET retrieved == <<Call("stripe.sessions.retrieve", id, TRUE)>> IN
                        IF ~PaidSession(id)
                        THEN resp' = Fail(402) /\ calls' = retrieved
                        ELSE LET key == sessionKey(SessionOf(id)) IN
                             IF key = <<>>
                             THEN resp' = Fail(400) /\ calls' = retrieved
                             ELSE \E ok \in GetOutcomes(key) :
                                    /\ calls' = retrieved \o <<Call("s3.getObject", key, ok)>>
                                    /\ resp' = IF ok THEN Original(key) ELSE Fail(404)
    /\ UNCHANGED <<server, ADMIN_TOKEN, STRIPE_SECRET, s3, faces, sessions>>

\* the keys the webhook reads from a session: metadata?.keys?.split(',') || []
webhookItems(session) ==
    IF session.keys = <<>> THEN <<>> ELSE split(session.keys, ",")

watermarkedKey(key) == <<"watermarked", "/">> \o key
cleanKey(key) == <<"clean", "/">> \o key

RECURSIVE copyItems(_, _, _)
\* s3.copyObject for every item, each in its own try/catch; oks[i] says
\* whether S3 is up for the i-th copy.  The bucket and the calls afterwards.
copyItems(items, oks, acc) ==
    IF items = <<>> THEN acc
    ELSE LET src == watermarkedKey(Head(items))
             ok == Head(oks) /\ src \in acc.bucket
         IN copyItems(Tail(items), Tail(oks),
                      [bucket |-> IF ok THEN acc.bucket \cup {cleanKey(Head(items))}
                                  ELSE acc.bucket,
                       calls |-> Append(acc.calls, Call("s3.copyObject", src, ok))])

\* the watermarked copy the webhook expects under 'watermarked/<key>': no
\* handler writes it, whoever runs the bucket puts it there
Provision ==
    /\ Idle
    /\ server = "B"
    /\ \E key \in CheckoutKeys :
          /\ watermarkedKey(key) \notin s3
          /\ Cardinality(s3) < MaxObjects
          /\ s3' = s3 \cup {watermarkedKey(key)}
    /\ UNCHANGED <<server, ADMIN_TOKEN, STRIPE_SECRET, _stripe, faces, sessions,
                   req, resp, calls>>

\* POST /stripe/webhook, server B
StripeWebhook ==
    /\ Idle
    /\ server = "B"
    /\ \E verified \in BOOLEAN, completed \in BOOLEAN, i \in 1..Len(sessions) :
          /\ req' = [ep |-> "/stripe/webhook", session_id |-> SessionId(i),
                     completed |-> completed]
          /\ IF ~stripe \/ ~verified
             THEN resp' = Fail(400) /\ calls' = <<>> /\ UNCHANGED s3
             ELSE IF ~completed
             THEN resp' = [status |-> 200, kind |-> "received"]
                  /\ calls' = <<>> /\ UNCHANGED s3
             ELSE LET items == webhookItems(sessions[i]) IN
                  \E copied \in SUBSET {n \in 1..Len(items) :
                                            watermarkedKey(items[n]) \in s3} :
                     LET oks == [n \in 1..Len(items) |-> n \in copied]
                         done == copyItems(items, oks, [bucket |-> s3, calls |-> <<>>]) IN
                     /\ resp' = [status |-> 200, kind |-> "received"]
                     /\ calls' = done.calls
                     /\ s3' = done.bucket
    /\ UNCHANGED <<server, ADMIN_TOKEN, STRIPE_SECRET, _stripe, faces, sessions>>

\* ------------------------------------------------------ POST /admin/upload
BearerPrefix == <<"B", "e", "a", "r", "e", "r", " ">>

\* auth.startsWith('Bearer ') ? auth.slice(7) : ''
bearerToken(auth) == IF startsWith(auth, BearerPrefix) THEN slice(auth, 7) ELSE <<>>

\* a variant without the !token test
unauthorizedUnlessEqual(auth) == bearerToken(auth) # ADMIN_TOKEN
\* !token || token !== ADMIN_TOKEN
unauthorized(auth) == bearerToken(auth) = <<>> \/ bearerToken(auth) # ADMIN_TOKEN

\* (req.query.event || 'general').replace(/[^a-zA-Z0-9_\-:.]/g, '')
eventCodeOf(event) ==
    RemoveNot(IF event # <<>> THEN event ELSE <<"general">>,
              Word \cup {"general", "-", ":", "."})

\* the files a photographer sends: the name, and whether the type is HEIC
FileInputs == {[originalname |-> <<>>, heic |-> FALSE],
               [originalname |-> <<"f", " ", "#", ":", "g", ".png">>, heic |-> FALSE]}

\* the name with its extension normalised to .jpg
baseNameOf(f) ==
    LET name == IF f.originalname # <<>> THEN f.originalname ELSE <<"photo", ".jpg">>
        ext == name[Len(name)]
        looksHeic == f.heic \/ ext = ".heic"
        swap == IF looksHeic THEN ext = ".heic" ELSE ext \in {".jpg", ".png"}
    IN IF swap THEN SubSeq(name, 1, Len(name) - 1) \o <<".jpg">> ELSE name

\* baseName.replace(/[^\w.\-]/g, '_')
safeNameOf(f) == ReplaceEach(baseNameOf(f), Word \cup Exts \cup {".", "-"})

adminKey(eventCode, f, t) ==
    <<"event-photos", "/">> \o eventCode \o <<"/", DigitStr(t), "-">> \o safeNameOf(f)

\* what happens to one file: sharp throws, putObject throws, or the object
\* is stored and indexFaces answers idx FaceRecords (-1: it throws) and, if
\* no face was indexed, detectFaces answers det FaceDetails (-1: it throws)
FileOutcomes ==
    {[step |-> s, idx |-> 0, det |-> 0] : s \in {"sharp", "put"}}
    \cup {[step |-> "done", idx |-> i, det |-> 0] : i \in {i \in FaceCounts : i > 0}}
    \cup {[step |-> "done", idx |-> i, det |-> d] :
             i \in {i \in FaceCounts : i <= 0}, d \in FaceCounts}

\* a variant that does not look for faces after indexFaces failed
adminFileDetectUnlessError(eventCode, f, t, out, acc) ==
    LET key == adminKey(eventCode, f, t)
        externalId == keyToExternalId(key)
        idxOk == out.idx >= 0 /\ RekognitionAccepts(externalId)
        facesIndexed == IF idxOk THEN out.idx ELSE 0
        detect == idxOk /\ facesIndexed = 0
        detOk == out.det >= 0
    IN  IF out.step = "sharp" THEN
           [acc EXCEPT !.results = Append(@, [key |-> <<>>, ok |-> FALSE,
                                             facesIndexed |-> 0, faceCountInImage |-> 0,
                                             indexError |-> FALSE])]
        ELSE IF out.step = "put" THEN
           [acc EXCEPT !.results = Append(@, [key |-> <<>>, ok |-> FALSE,
                                             facesIndexed |-> 0, faceCountInImage |-> 0,
                                             indexError |-> FALSE]),
                       !.calls = Append(@, Call("s3.putObject", key, FALSE))]
        ELSE
           [bucket |-> acc.bucket \cup {key},
            collection |-> IF facesIndexed > 0
                           THEN acc.collection \cup {[eid |-> externalId, photo |-> key]}
                           ELSE acc.collection,
            calls |-> acc.calls
                      \o <<Call("s3.putObject", key, TRUE),
                           Call("rekognition.indexFaces", externalId, idxOk)>>
                      \o (IF ~detect THEN <<>>
                          ELSE IF detOk
                          THEN <<Answered("rekognition.detectFaces", key, out.det)>>
                          ELSE <<Call("rekognition.detectFaces", key, FALSE)>>),
            results |-> Append(acc.results,
                               [key |-> key, ok |-> TRUE, facesIndexed |-> facesIndexed,
                                \* null is -2 here
                                faceCountInImage |-> IF ~detect THEN -2
                                                     ELSE IF detOk THEN out.det ELSE -1,
                                indexError |-> ~idxOk])]

\* one file of the loop: the bucket, the collection, the calls and the
\* results after it
adminFile(eventCode, f, t, out, acc) ==
    LET key == adminKey(eventCode, f, t)
        externalId == keyToExternalId(key)
        idxOk == out.idx >= 0 /\ RekognitionAccepts(externalId)
        facesIndexed == IF idxOk THEN out.idx ELSE 0
        detect == facesIndexed = 0
        detOk == out.det >= 0
    IN  IF out.step = "sharp" THEN
           [acc EXCEPT !.results = Append(@, [key |-> <<>>, ok |-> FALSE,
                                             facesIndexed |-> 0, faceCountInImage |-> 0,
                                             indexError |-> FALSE])]
        ELSE IF out.step = "put" THEN
           [acc EXCEPT !.results = Append(@, [key |-> <<>>, ok |-> FALSE,
                                             facesIndexed |-> 0, faceCountInImage |-> 0,
                                             indexError |-> FALSE]),
                       !.calls = Append(@, Call("s3.putObject", key, FALSE))]
        ELSE
           [bucket |-> acc.bucket \cup {key},
            collection |-> IF facesIndexed > 0
                           THEN acc.collection \cup {[eid |-> externalId, photo |-> key]}
                           ELSE acc.collection,
            calls |-> acc.calls
                      \o <<Call("s3.putObject", key, TRUE),
                           Call("rekognition.indexFaces", externalId, idxOk)>>
                      \o (IF ~detect THEN <<>>
                          ELSE IF detOk
                          THEN <<Answered("rekognition.detectFaces", key, out.det)>>
                          ELSE <<Call("rekognition.detectFaces", key, FALSE)>>),
            results |-> Append(acc.results,
                               [key |-> key, ok |-> TRUE, facesIndexed |-> facesIndexed,
                                \* null is -2 here
                                faceCountInImage |-> IF ~detect THEN -2
                                                     ELSE IF detOk THEN out.det ELSE -1,
                                indexError |-> ~idxOk])]

RECURSIVE adminLoop(_, _, _, _, _)
\* for (const f of req.files)
adminLoop(eventCode, files, ts, outs, acc) ==
    IF files = <<>> THEN acc
    ELSE adminLoop(eventCode, Tail(files), Tail(ts), Tail(outs),
                   adminFile(eventCode, Head(files), Head(ts), Head(outs), acc))

\* POST /admin/upload, servers A and B
AdminUpload ==
    /\ Idle
    /\ server \in {"A", "B"}
    /\ \E auth \in AuthInputs, event \in EventInputs :
          /\ req' = [ep |-> "/admin/upload", auth |-> auth, event |-> event]
          /\ IF unauthorized(auth)
             THEN /\ resp' = Fail(401)
                  /\ calls' = <<>>
                  /\ UNCHANGED <<s3, faces>>
             ELSE \E n \in 0..MaxFiles :
                  \E files \in [1..n -> FileInputs], ts \in [1..n -> Times],
                     outs \in [1..n -> FileOutcomes] :
                     IF n = 0
                     THEN /\ resp' = Fail(400)
                          /\ calls' = <<>>
                          /\ UNCHANGED <<s3, faces>>
                     ELSE LET done == adminLoop(eventCodeOf(event), files, ts, outs,
                                                [bucket |-> s3, collection |-> faces,
                                                 calls |-> <<>>, results |-> <<>>])
                          IN  /\ Cardinality(done.bucket) <= MaxObjects
                              /\ s3' = done.bucket
                              /\ faces' = done.collection
                              /\ calls' = done.calls
                              /\ resp' = [status |-> 200, kind |-> "admin",
                                          results |-> done.results]
    /\ UNCHANGED <<server, ADMIN_TOKEN, STRIPE_SECRET, _stripe, sessions>>

\* ---------------------------------------- POST /match-gallery, A and B
\* Math.round of a Similarity given in tenths
round(x) == (x + 5) \div 10

RECURSIVE dedupe(_, _)
\* results.filter(r => !seen.has(r.key) && seen.add(r.key))
dedupe(results, seen) ==
    IF results = <<>> THEN <<>>
    ELSE IF Head(results).key \in seen THEN dedupe(Tail(results), seen)
    ELSE <<Head(results)>> \o dedupe(Tail(results), seen \cup {Head(results).key})

RECURSIVE insertBySimilarity(_, _)
insertBySimilarity(sorted, x) ==
    IF sorted = <<>> THEN <<x>>
    ELSE IF Head(sorted).similarity >= x.similarity
         THEN <<Head(sorted)>> \o insertBySimilarity(Tail(sorted), x)
         ELSE <<x>> \o sorted

RECURSIVE sortResults(_)
\* unique.sort((a,b) => b.similarity - a.similarity)
sortResults(rs) ==
    IF rs = <<>> THEN <<>>
    ELSE insertBySimilarity(sortResults(SubSeq(rs, 1, Len(rs) - 1)), rs[Len(rs)])

galleryResult(m) ==
    [key |-> externalIdToKey(m.eid), similarity |-> round(m.Similarity),
     photo |-> m.photo]

\* a variant that answers with the matches as Rekognition listed them
galleryResultsAsFound(found) ==
    SelectSeq([i \in 1..Len(found) |-> galleryResult(found[i])],
              LAMBDA r : r.key # <<>>)

galleryResults(found) ==
    sortResults(dedupe(SelectSeq([i \in 1..Len(found) |-> galleryResult(found[i])],
                                 LAMBDA r : r.key # <<>>), {}))

MatchGallerySharp ==
    /\ Idle
    /\ server \in {"A", "B"}
    /\ req' = [ep |-> "/match-gallery", event |-> <<>>]
    /\ \/ /\ resp' = [status |-> 200, kind |-> "match",     \* no image
                      matchFound |-> FALSE, results |-> <<>>]
          /\ calls' = <<>>
       \/ /\ resp' = Fail(500)                               \* sharp throws
          /\ calls' = <<>>
       \/ /\ resp' = Fail(500)
          /\ calls' = <<Call("rekognition.searchFacesByImage", <<>>, FALSE)>>
       \/ \E found \in SearchResults :
             LET unique == galleryResults(found) IN
             /\ calls' = <<Call("rekognition.searchFacesByImage", <<>>, TRUE)>>
             /\ resp' = [status |-> 200, kind |-> "match",
                         matchFound |-> Len(unique) > 0, results |-> unique]
    /\ UNCHANGED <<server, ADMIN_TOKEN, STRIPE_SECRET, _stripe, s3, faces, sessions>>

\* ------------------------------------------------------------ properties
Range(s) == {s[i] : i \in 1..Len(s)}

\* the calls of the request at hand to one operation of an external service
CallsTo(op) == {i \in 1..Len(calls) : calls[i].op = op}
FailedCalls == {i \in 1..Len(calls) : ~calls[i].ok}

\* the stored photos the response releases without a watermark: the object
\* itself, or signed URLs to objects
Released ==
    IF resp.kind = "original" THEN {resp.key}
    ELSE IF resp.kind = "signedUrls" THEN Range(resp.keys) \cap s3
    ELSE {}

\* a session with payment_status 'paid' whose metadata names the key
Covers(session, key) ==
    /\ session.paid
    /\ \/ session.s3_key = key
       \/ key \in Range(purchasedKeys(session))

\* C1: no endpoint releases the unwatermarked bytes of a stored photo, or a
\* signed URL to them, unless a paid Checkout Session covers the photo's key
C1_ReleasedOnlyWhenPaid ==
    \A key \in Released : \E i \in 1..Len(sessions) : Covers(sessions[i], key)

\* C2: every 200 response of GET /preview-image carries the watermarked
\* photo, never the object as it is stored
C2_PreviewIsWatermarked ==
    (req.ep = "/preview-image" /\ resp.status = 200) => resp.kind = "watermarked"

\* the session Stripe holds under an id, read without the handlers' helpers
IsPaid(id) == \E i \in 1..Len(sessions) : id = SessionId(i) /\ sessions[i].paid
RetrieveAnswered == \E i \in CallsTo("stripe.sessions.retrieve") : calls[i].ok
RetrieveThrew == \E i \in CallsTo("stripe.sessions.retrieve") : ~calls[i].ok
SignedAnything == CallsTo("s3.getSignedUrl") # {} \/ resp.kind = "signedUrls"

\* C3 as the specification states it: a missing session_id yields 400, a
\* missing or unpaid session 403, a paid session without keys 400, and no
\* signed URL is generated in these cases
C3_PurchaseSessionAsStated ==
    req.ep = "/purchase/session" =>
        /\ req.session_id = <<>> => (resp.status = 400 /\ ~SignedAnything)
        /\ (req.session_id # <<>> /\ ~IsPaid(req.session_id))
              => (resp.status = 403 /\ ~SignedAnything)
        /\ (IsPaid(req.session_id) /\ purchasedKeys(SessionOf(req.session_id)) = <<>>)
              => (resp.status = 400 /\ ~SignedAnything)

\* C3: GET /purchase/session signs URLs only for a paid session, and then for
\* exactly the keys of its metadata.  With STRIPE_SECRET unset it answers 500,
\* with it set: 400 without session_id, 500 when the retrieve throws, 403 for
\* a missing or unpaid session, 400 for a paid session without keys
C3_PurchaseSessionSignsOnlyPaid ==
    req.ep = "/purchase/session" =>
        LET id == req.session_id IN
        /\ SignedAnything =>
              /\ IsPaid(id)
              /\ resp.kind = "signedUrls"
              /\ resp.keys = purchasedKeys(SessionOf(id))
              /\ resp.keys # <<>>
              /\ [i \in 1..Len(resp.keys) |-> calls[i + 1].arg] = resp.keys
        /\ ~STRIPE_SECRET => (resp.status = 500 /\ calls = <<>>)
        /\ (STRIPE_SECRET /\ id = <<>>) => (resp.status = 400 /\ calls = <<>>)
        /\ RetrieveThrew => resp.status = 500
        /\ (RetrieveAnswered /\ ~IsPaid(id)) => resp.status = 403
        /\ (RetrieveAnswered /\ IsPaid(id)
               /\ purchasedKeys(SessionOf(id)) = <<>>) => resp.status = 400
        /\ (RetrieveAnswered /\ IsPaid(id)
               /\ purchasedKeys(SessionOf(id)) # <<>>) => resp.status = 200

\* an unpaid session that names a key is asked for and refused
C3_UnpaidRefused ==
    /\ req.ep = "/purchase/session"
    /\ Known(req.session_id)
    /\ ~IsPaid(req.session_id)
    /\ purchasedKeys(SessionOf(req.session_id)) # <<>>
    /\ resp.status = 403

S3Reads == CallsTo("s3.getObject")

\* C4 as the specification states it: GET /download?session_id= reads and
\* streams only the s3_key of a paid session, and answers an unpaid session
\* with 402 without reading S3
C4_DownloadAsStated ==
    (server = "E" /\ req.ep = "/download") =>
        LET id == req.session_id IN
        /\ (S3Reads # {} \/ resp.kind = "original") => IsPaid(id)
        /\ \A i \in S3Reads : calls[i].arg = SessionOf(id).s3_key
        /\ resp.kind = "original" => resp.key = SessionOf(id).s3_key
        /\ (Known(id) /\ ~IsPaid(id)) => (resp.status = 402 /\ S3Reads = {})

\* C4: GET /download?session_id= reads and streams only the s3_key of a paid
\* session; an unpaid session that Stripe answers with gets 402 and no S3
\* read; with STRIPE_SECRET unset or a retrieve that throws the answer is 500,
\* again without an S3 read
C4_DownloadOnlyPaidKey ==
    (server = "E" /\ req.ep = "/download") =>
        LET id == req.session_id IN
        /\ (S3Reads # {} \/ resp.kind = "original") =>
              /\ IsPaid(id)
              /\ SessionOf(id).s3_key # <<>>
              /\ \A i \in S3Reads : calls[i].arg = SessionOf(id).s3_key
        /\ resp.kind = "original" => resp.key = SessionOf(id).s3_key
        /\ (RetrieveAnswered /\ ~IsPaid(id)) => (resp.status = 402 /\ S3Reads = {})
        /\ (~STRIPE_SECRET \/ RetrieveThrew) => (resp.status = 500 /\ S3Reads = {})

\* a paid session's photo is streamed
C4_PaidStreamed ==
    /\ server = "E"
    /\ req.ep = "/download"
    /\ IsPaid(req.session_id)
    /\ resp.kind = "original"

\* C5: the key of every indexed photo survives the way to its
\* ExternalImageId and back, so a match answers with the key the photo is
\* stored under
C5_ExternalIdRoundTrip ==
    \A f \in faces : matchKey(f.eid) = f.photo

\* C6: the ExternalImageId an upload endpoint passes to indexFaces never
\* holds '/'
C6_NoSlashInExternalImageId ==
    \A i \in CallsTo("rekognition.indexFaces") : ~Contains(calls[i].arg, "/")

StripeRequestE ==
    server = "E" /\ req.ep \in {"/create-checkout-session", "/download"}

Tolerant == req.ep \in {"/admin/upload", "/stripe/webhook"}
FallsBack == server = "B" /\ req.ep = "/preview-image"

BearerOfAdminToken(auth) ==
    /\ ADMIN_TOKEN # <<>>
    /\ auth = <<"B", "e", "a", "r", "e", "r", " ">> \o ADMIN_TOKEN

\* C9: POST /admin/upload answers 401 and calls neither S3 nor Rekognition
\* unless the Authorization header is 'Bearer <t>' with t non-empty and equal
\* to ADMIN_TOKEN; with ADMIN_TOKEN unset every request gets 401
C9_AdminUploadNeedsToken ==
    req.ep = "/admin/upload" =>
        /\ ~BearerOfAdminToken(req.auth) => (resp.status = 401 /\ calls = <<>>)
        /\ ADMIN_TOKEN = <<>> => (resp.status = 401 /\ calls = <<>>)
        /\ BearerOfAdminToken(req.auth) => resp.status # 401

\* ADMIN_TOKEN is unset and the header is 'Bearer ' with nothing after it
C9_EmptyBearerRejected ==
    /\ req.ep = "/admin/upload"
    /\ ADMIN_TOKEN = <<>>
    /\ req.auth = <<"B", "e", "a", "r", "e", "r", " ">>
    /\ resp.status = 401

\* C10: a match endpoint that is given an event answers only with photos
\* stored under that event's prefix, 'event-photos/<event>/'
C10_MatchStaysInEvent ==
    (/\ req.ep \in {"/match", "/match-gallery", "/match-by-url"}
     /\ server \in {"C", "D", "E"}
     /\ resp.kind = "match"
     /\ req.event # <<>>)
        => \A i \in 1..Len(resp.results) :
              startsWith(resp.results[i].photo, eventPrefix(req.event))

\* C11: for a session /create-checkout-session created, once it is paid
\* GET /purchase/session returns exactly the keys the checkout charged for,
\* in the submitted order, however many they are
C11_PurchasedAreCharged ==
    (/\ req.ep = "/purchase/session"
     /\ resp.status = 200
     /\ SessionOf(req.session_id).charged # <<>>)
        => resp.keys = SessionOf(req.session_id).charged

\* the endpoints that need the Stripe client to answer
StripeBacked ==
    \/ req.ep \in {"/create-checkout-session", "/purchase/session"}
    \/ server = "E" /\ req.ep = "/download"

\* C13: with STRIPE_SECRET unset /create-checkout-session and the
\* Stripe-backed download and purchase endpoints answer 500 'Stripe not
\* configured' and call neither Stripe nor S3, no Stripe client exists, and
\* getStripe creates a client only when none is cached and keeps it from then
\* on, so at most one client is created over any sequence of requests
C13_StripeOptional ==
    [][/\ (StripeBacked' /\ ~STRIPE_SECRET)
            => (resp' = StripeNotConfigured /\ calls' = <<>>)
       /\ ~STRIPE_SECRET => ~_stripe'
       /\ (StripeRequestE' /\ req'.newClient) => (~_stripe /\ _stripe')
       /\ _stripe => _stripe']_vars

\* server E refuses a download because STRIPE_SECRET is unset
C13_DownloadNotConfigured ==
    /\ server = "E"
    /\ ~STRIPE_SECRET
    /\ req.ep = "/download"
    /\ resp = StripeNotConfigured
    /\ ~_stripe

\* C14: the results of the sharp-based POST /match-gallery hold no two
\* entries with the same key and are in non-increasing order of similarity
C14_GalleryUniqueAndSorted ==
    (req.ep = "/match-gallery" /\ server \in {"A", "B"} /\ resp.status = 200) =>
        /\ \A i, j \in 1..Len(resp.results) :
              resp.results[i].key = resp.results[j].key => i = j
        /\ \A i, j \in 1..Len(resp.results) :
              i < j => resp.results[i].similarity >= resp.results[j].similarity

\* a gallery of two photos, the more similar one first
C14_TwoPhotosInOrder ==
    /\ req.ep = "/match-gallery"
    /\ server \in {"A", "B"}
    /\ resp.status = 200
    /\ Len(resp.results) = 2
    /\ resp.results[1].key # resp.results[2].key
    /\ resp.results[1].similarity > resp.results[2].similarity

\* /match or /match-by-url got an answer from Rekognition and reported on it
MatchAnswered ==
    /\ req.ep \in {"/match", "/match-by-url"}
    /\ resp.status = 200
\* the FaceMatches Rekognition answered with
FaceMatches == calls[Len(calls)].answer
\* those of them that pass the event filter
Passing == Range(filterByPrefix(FaceMatches, wantedPrefixOf(req.event)))

\* C15: when /match or /match-by-url reports matchFound true, the similarity
\* and the key are those of a match no other match that passes the event
\* filter exceeds in similarity; when none passes, matchFound is false
C15_TopOfThePassingMatches ==
    MatchAnswered =>
        IF Passing = {} THEN ~resp.matchFound /\ resp.results = <<>>
        ELSE /\ resp.matchFound
             /\ \E m \in Passing :
                   /\ \A other \in Passing : m.Similarity >= other.Similarity
                   /\ resp.results = <<[key |-> matchKey(m.eid),
                                        similarity |-> m.Similarity,
                                        photo |-> m.photo]>>

\* two matches of the event asked for, the less similar listed first; the
\* answer names the other one
C15_SecondListedWins ==
    /\ MatchAnswered
    /\ req.event # <<>>
    /\ Len(FaceMatches) = 2
    /\ Cardinality(Passing) = 2
    /\ FaceMatches[1].Similarity < FaceMatches[2].Similarity
    /\ resp.results[1].photo = FaceMatches[2].photo
    /\ resp.results[1].photo # FaceMatches[1].photo

\* the files of the /admin/upload at hand that were stored, those of them no
\* face was indexed for, and the calls to detectFaces, each in request order
StoredFiles == SelectSeq(resp.results, LAMBDA r : r.ok)
FacelessFiles == SelectSeq(StoredFiles, LAMBDA r : r.facesIndexed = 0)
DetectCalls == SelectSeq(calls, LAMBDA c : c.op = "rekognition.detectFaces")

\* C16: for the files /admin/upload stored, detectFaces is called once for
\* each file with facesIndexed 0, an indexFaces error included, and for no
\* other file; faceCountInImage is null (-2 here) exactly when facesIndexed
\* is positive, -1 exactly when detectFaces failed, and otherwise the number
\* of faces detectFaces reported
C16_DetectWhenNoneIndexed ==
    (req.ep = "/admin/upload" /\ resp.status = 200) =>
        /\ Len(DetectCalls) = Len(FacelessFiles)
        /\ \A r \in Range(StoredFiles) :
              /\ r.faceCountInImage = -2 <=> r.facesIndexed > 0
              /\ r.indexError => r.facesIndexed = 0
        /\ \A n \in 1..Len(FacelessFiles) :
              /\ DetectCalls[n].arg = FacelessFiles[n].key
              /\ FacelessFiles[n].faceCountInImage = -1 <=> ~DetectCalls[n].ok
              /\ DetectCalls[n].ok =>
                    FacelessFiles[n].faceCountInImage = DetectCalls[n].answer

\* indexFaces failed for a stored file, detectFaces was called and found a face
C16_DetectAfterIndexError ==
    /\ req.ep = "/admin/upload"
    /\ resp.status = 200
    /\ \E n \in 1..Len(FacelessFiles) :
          /\ FacelessFiles[n].indexError
          /\ DetectCalls[n].ok
          /\ FacelessFiles[n].faceCountInImage = 1

\* C17: when POST /upload has stored the object and indexFaces then fails,
\* the answer is 500 with success false, the object stays in the bucket, no
\* delete is issued and no face is indexed
C17_StoredObjectIsKept ==
    [][(/\ req'.ep = "/upload"
        /\ Len(calls') >= 2
        /\ calls'[1].op = "s3.putObject" /\ calls'[1].ok
        /\ calls'[2].op = "rekognition.indexFaces" /\ ~calls'[2].ok)
          => /\ resp'.status = 500
             /\ ~resp'.success
             /\ s3' = s3 \cup {calls'[1].arg}
             /\ faces' = faces
             /\ \A n \in 1..Len(calls') : calls'[n].op # "s3.deleteObject"]_vars

\* after the error response the bucket holds a photo no face is indexed for
C17_PhotoWithoutFaces ==
    /\ req.ep = "/upload"
    /\ resp = UploadFailed
    /\ Len(calls) = 2
    /\ ~calls[2].ok
    /\ calls[1].arg \in s3
    /\ \A f \in faces : f.photo # calls[1].arg

\* the image searched for and the threshold the endpoint searches with
Selfie == calls[Len(calls)].arg
ThresholdOf(ep) == IF ep = "/match" THEN MatchThreshold ELSE GalleryThreshold

\* C18: if the collection holds a face that matches the selfie above the
\* threshold and belongs to a photo of event E, /match?event=E and
\* /match-gallery?event=E report matchFound true, however many faces of
\* other events match the selfie better
C18_OwnPhotoFound ==
    (/\ req.ep \in {"/match", "/match-gallery"}
     /\ resp.status = 200
     /\ req.event # <<>>
     /\ Selfie # <<>>
     /\ \E face \in faces :
           /\ Selfie[face] >= ThresholdOf(req.ep)
           /\ startsWith(face.photo, eventPrefix(req.event)))
        => resp.matchFound

\* C12: when /stripe/webhook handles a verified checkout.session.completed
\* event for a session /create-checkout-session created, and the watermarked
\* copies of its keys are in the bucket, then afterwards every key of the
\* session's metadata is under 'clean/<key>' and no longer under
\* 'watermarked/<key>'
C12_WebhookMovesKeys ==
    [][(/\ req'.ep = "/stripe/webhook"
        /\ req'.completed
        /\ resp'.status = 200
        /\ SessionOf(req'.session_id).charged # <<>>
        /\ \A key \in Range(purchasedKeys(SessionOf(req'.session_id))) :
               watermarkedKey(key) \in s3)
          => \A key \in Range(purchasedKeys(SessionOf(req'.session_id))) :
                cleanKey(key) \in s3' /\ watermarkedKey(key) \notin s3']_vars

\* ---------------------------------------------------------- specifications
\* the requests that touch the photos: the bucket and the face collection
Photos ==
    \/ Upload
    \/ Match
    \/ MatchByUrl
    \/ MatchGallery
    \/ PreviewImageA
    \/ PreviewImageB
    \/ PreviewImageE
    \/ ProxyImage
    \/ DownloadByKey
    \/ AdminUpload
    \/ MatchGallerySharp
    \/ Provision

\* the requests that touch the sale: the Checkout Sessions and the Stripe
\* client, and what Stripe and its customers do in between
Sales ==
    \/ Pay
    \/ ForeignSession
    \/ CreateCheckoutSession
    \/ PurchaseSession
    \/ CreateCheckoutSessionE
    \/ DownloadBySession
    \/ StripeWebhook

\* requests in any order
Next ==
    \/ Photos
    \/ Sales
    \/ Finish

Spec == Init /\ [][Next]_vars

\* The photo requests neither read nor write the sessions or the Stripe
\* client (each leaves <<sessions, _stripe>> unchanged and never mentions
\* them), so what one of them answers is the same whatever was sold before
\* it.  NextStaged answers the photo requests before the first session
\* exists.  Between requests it reaches the same states as Next: every bucket
\* and collection, and every list of sessions with each of them; each photo
\* request is answered once per bucket instead of once per bucket and list
\* of sessions.
BeforeSale == sessions = <<>>

NextStaged ==
    \/ BeforeSale /\ Upload
    \/ BeforeSale /\ Match
    \/ BeforeSale /\ MatchByUrl
    \/ BeforeSale /\ MatchGallery
    \/ BeforeSale /\ PreviewImageA
    \/ BeforeSale /\ PreviewImageB
    \/ BeforeSale /\ PreviewImageE
    \/ BeforeSale /\ ProxyImage
    \/ BeforeSale /\ DownloadByKey
    \/ BeforeSale /\ AdminUpload
    \/ BeforeSale /\ MatchGallerySharp
    \/ BeforeSale /\ Provision
    \/ Sales
    \/ Finish

SpecStaged == Init /\ [][NextStaged]_vars

\* server B selling long albums: checkout, payment, /purchase/session
NextAlbum ==
    \/ CreateCheckoutSessionLong
    \/ Pay
    \/ PurchaseSession
    \/ Finish

InitB == Init /\ server = "B"
SpecAlbum == InitB /\ [][NextAlbum]_vars

\* the match endpoints of a server constructed over the library
NextSearch ==
    \/ Match
    \/ MatchByUrl
    \/ MatchGallery
    \/ MatchGallerySharp
    \/ Finish

SpecSearch == InitSearch /\ [][NextSearch]_vars

\* guests of a crowded party look for their photos
NextCrowd ==
    \/ MatchSelfie
    \/ MatchGallerySelfie
    \/ Finish

SpecCrowd == InitCrowd /\ [][NextCrowd]_vars
====
